---- MODULE Spec2Model ----
(***************************************************************************)
(* Model of the stand-alone developer scripts under misc/test_env:         *)
(*   voxelize_tree.py      sdf_tapered_segment, generate_trunk_voxels      *)
(*   audio/resampling.py   normalize_audio, process_file, main             *)
(*   download_hrtf.py      download_file                                   *)
(*   test.py               linear_scale_to_u8                              *)
(*   normal_check.py       visualize_sphere_culling                        *)
(* The scripts share no state.  Each one has its own specification; the    *)
(* variables of the other scripts stay at their idle value.                *)
(***************************************************************************)
EXTENDS Integers, Sequences, FiniteSets, TLC

VARIABLES
    script,      \* which script this run is
    sdf_in,      \* voxelize_tree.py: arguments of sdf_tapered_segment
    sdf_out,     \* voxelize_tree.py: masks and result d of sdf_tapered_segment
    trunk_in,    \* voxelize_tree.py: arguments of generate_trunk_voxels
    trunk_out,   \* voxelize_tree.py: grid P, distance d and vox of generate_trunk_voxels
    au,          \* audio/resampling.py: main's position, locals, the disk and the output streams
    dl,          \* download_hrtf.py: download_file's position, the server's answer, the file at save_path
    sc,          \* normal_check.py: visualize_sphere_culling's position, loop indices and lists
    hdr,         \* test.py: the argument of linear_scale_to_u8 (the pixels, flattened)
    u8,          \* test.py: what linear_scale_to_u8 returned
    na_in,       \* audio/resampling.py: the arguments of normalize_audio
    na_out       \* audio/resampling.py: what normalize_audio returned

vars == <<script, sdf_in, sdf_out, trunk_in, trunk_out, au, dl, sc, hdr, u8, na_in, na_out>>

\* the variables of test.py and of the direct calls of normalize_audio
pure == <<hdr, u8, na_in, na_out>>

PureIdle == hdr = <<>> /\ u8 = <<>> /\ na_in = <<>> /\ na_out = <<>>

Idle == [status |-> "idle"]

(***************************************************************************)
(* Bounds of the model.                                                    *)
(***************************************************************************)
MaxCoord == 1     \* segment endpoints of the direct sdf calls lie in (0..MaxCoord)^3
MaxRadius == 2    \* radii are drawn from 0..MaxRadius
MaxHeight == 2    \* trunk heights are drawn from 0..MaxHeight
ChunkN == 3       \* the cubic chunk is ChunkN x ChunkN x ChunkN voxels

(***************************************************************************)
(* Small integer helpers.                                                  *)
(***************************************************************************)
Abs(x) == IF x < 0 THEN -x ELSE x

Clip(x, lo, hi) == IF x < lo THEN lo ELSE IF x > hi THEN hi ELSE x

Dot(u, v) == u[1] * v[1] + u[2] * v[2] + u[3] * v[3]

VSub(u, v) == <<u[1] - v[1], u[2] - v[2], u[3] - v[3]>>

VAdd(u, v) == <<u[1] + v[1], u[2] + v[2], u[3] + v[3]>>

VScale(k, u) == <<k * u[1], k * u[2], k * u[3]>>

(***************************************************************************)
(* voxelize_tree.py, sdf_tapered_segment.                                  *)
(*                                                                         *)
(* Points, endpoints and radii are integers (a common length unit), so     *)
(* every quantity of the function is a rational or the square root of one. *)
(* The model keeps the SIGN of each distance (-1, 0, 1), which is all that *)
(* `d <= 0` and np.minimum need, and NaN for the 0/0 of a == b.            *)
(*   t_raw = apab / ab2             t = s / ab2 with s = clip(apab, 0, ab2)*)
(*   |p - proj|^2 = (|ap|^2 ab2 - 2 s apab + s^2) / ab2                    *)
(***************************************************************************)
\* the tag of a NaN entry (not a sign)
NaN == 2

Sgn == {-1, 0, 1}

\* sign of x - y
SgnCmp(x, y) == IF x < y THEN -1 ELSE IF x = y THEN 0 ELSE 1

\* sign of sqrt(n2) - r : np.linalg.norm(...) - r for the squared norm n2
NormMinus(n2, r) == IF r < 0 THEN 1 ELSE SgnCmp(n2, r * r)

\* t_raw <= 0 ; t_raw is NaN when ab2 = 0 (0/0), and NaN compares False
Mask0(apab, ab2) == ab2 # 0 /\ apab <= 0

\* t_raw >= 1
Mask1(apab, ab2) == ab2 # 0 /\ apab >= ab2

\* (~mask0) & (~mask1)
MaskB(m0, m1) == (~m0) /\ (~m1)

\* numerator of the clamped t = np.clip(t_raw, 0, 1), over the denominator ab2
ClampT(apab, ab2) == Clip(apab, 0, ab2)

\* The interpolated radius R(t), t = s/q, as the fraction <<numerator, denominator>>.
RadiusNoTaper(r0, r1, s, q, mode) == <<r0, 1>>

Radius(r0, r1, s, q, mode) ==
    IF mode = "linear"
    THEN <<r0 * q + (r1 - r0) * s, q>>
    ELSE <<r0 * q * q + (r1 - r0) * s * s, q * q>>

\* sign of d_body = d_rad - R at one point; ap = p - a, ab = b - a
DBody(ap, ab, r0, r1, mode) ==
    LET q == Dot(ab, ab)
        apab == Dot(ap, ab)
        s == ClampT(apab, q)
        n == Dot(ap, ap) * q - 2 * s * apab + s * s   \* |p - proj|^2 * q
        R == Radius(r0, r1, s, q, mode)
    IN  IF q = 0 THEN NaN
        ELSE IF R[1] < 0 THEN 1
        ELSE SgnCmp(n * ((R[2] * R[2]) \div q), R[1] * R[1])

\* d[mask] = src[mask]
MaskAssign(dst, mask, src) == [x \in DOMAIN dst |-> IF mask[x] THEN src[x] ELSE dst[x]]

Modes == {"linear", "quadratic"}

\* The whole function on the point array p (a function from an index set to
\* points).  g is the content np.empty_like leaves in d before the masked stores.
SdfTaperedSegment(p, a, b, r0, r1, mode, g) ==
    LET ab == VSub(b, a)
        ab2 == Dot(ab, ab)
        I == DOMAIN p
        ap == [x \in I |-> VSub(p[x], a)]
        apab == [x \in I |-> Dot(ap[x], ab)]
        mask0 == [x \in I |-> Mask0(apab[x], ab2)]
        mask1 == [x \in I |-> Mask1(apab[x], ab2)]
        maskb == [x \in I |-> MaskB(mask0[x], mask1[x])]
        d_body == [x \in I |-> DBody(ap[x], ab, r0, r1, mode)]
        d_a == [x \in I |-> NormMinus(Dot(ap[x], ap[x]), r0)]
        d_b == [x \in I |-> NormMinus(Dot(VSub(p[x], b), VSub(p[x], b)), r1)]
        d0 == [x \in I |-> g]
        d1 == MaskAssign(d0, mask0, d_a)
        d2 == MaskAssign(d1, mask1, d_b)
        d3 == MaskAssign(d2, maskb, d_body)
    IN  IF mode \notin Modes
        THEN [status |-> "ValueError"]
        ELSE [status |-> "ok", mask0 |-> mask0, mask1 |-> mask1, maskb |-> maskb, d |-> d3]

\* d <= 0 elementwise; NaN <= 0 is False
LeZero(v) == v # NaN /\ v <= 0

(***************************************************************************)
(* Direct calls of sdf_tapered_segment on the lattice of sample points.    *)
(***************************************************************************)
Coords == 0..MaxCoord

Radii == 0..MaxRadius

Samples == (-1)..(MaxCoord + 1)

SamplePoints == [x \in Samples \X Samples \X Samples |-> x]

SdfInit ==
    /\ script = "sdf"
    /\ sdf_in \in [a : {<<0, 0, 0>>, <<1, 0, 1>>}, b : Coords \X Coords \X Coords,
                   r0 : Radii, r1 : Radii, mode : Modes \cup {"cubic"}]
    /\ sdf_out = Idle
    /\ trunk_in = Idle
    /\ trunk_out = Idle
    /\ au = Idle
    /\ dl = Idle
    /\ sc = Idle
    /\ PureIdle

CallSdf ==
    /\ script = "sdf"
    /\ sdf_out = Idle
    /\ \E g \in Sgn \cup {NaN} :
         sdf_out' = SdfTaperedSegment(SamplePoints, sdf_in.a, sdf_in.b,
                                      sdf_in.r0, sdf_in.r1, sdf_in.mode, g)
    /\ UNCHANGED <<script, sdf_in, trunk_in, trunk_out, au, dl, sc, pure>>

SdfNext == CallSdf

SpecSdf == SdfInit /\ [][SdfNext]_vars

(***************************************************************************)
(* C2: for a # b, d <= 0 exactly at the points within R(t) of the axis     *)
(* point a + t (b - a), t the projection parameter clamped to [0, 1], with *)
(* R(0) = r0, R(1) = r1, linear in t ('linear') or in t^2 ('quadratic');   *)
(* and each point lies in exactly one of the regions t <= 0, t >= 1, body. *)
(***************************************************************************)
\* The capsule of the claim, computed without the code's three regions:
\* q (p - axis) = q ap - s ab, and R(t) = rn / rd.
InsideCapsule(p, a, b, r0, r1, mode) ==
    LET ab == VSub(b, a)
        ap == VSub(p, a)
        q == Dot(ab, ab)
        s == Clip(Dot(ap, ab), 0, q)
        w == VSub(VScale(q, ap), VScale(s, ab))
        rn == IF mode = "linear" THEN r0 * q + (r1 - r0) * s
                                 ELSE r0 * q * q + (r1 - r0) * s * s
        rd == IF mode = "linear" THEN q ELSE q * q
    IN  /\ rn >= 0
        /\ Dot(w, w) * rd * rd <= rn * rn * q * q

RegionCount(o, x) ==
    (IF o.mask0[x] THEN 1 ELSE 0) + (IF o.mask1[x] THEN 1 ELSE 0) + (IF o.maskb[x] THEN 1 ELSE 0)

\* C2: sdf_tapered_segment is <= 0 exactly inside the tapered capsule, and the
\* three masks partition the sample points (cap at a, cap at b, body).
C2_SdfIsCapsule ==
    (script = "sdf" /\ sdf_out.status = "ok" /\ sdf_in.a # sdf_in.b) =>
        \A x \in DOMAIN sdf_out.d :
            LET apab == Dot(VSub(x, sdf_in.a), VSub(sdf_in.b, sdf_in.a))
                q == Dot(VSub(sdf_in.b, sdf_in.a), VSub(sdf_in.b, sdf_in.a))
            IN  /\ sdf_out.d[x] \in Sgn
                /\ LeZero(sdf_out.d[x]) <=>
                       InsideCapsule(x, sdf_in.a, sdf_in.b, sdf_in.r0, sdf_in.r1, sdf_in.mode)
                /\ RegionCount(sdf_out, x) = 1
                /\ sdf_out.mask0[x] <=> (apab <= 0)
                /\ sdf_out.mask1[x] <=> (apab >= q)

\* A tapered segment (r0 # r1) whose three regions all hold sample points, some
\* inside and some outside the body.
C2_Witness ==
    /\ script = "sdf" /\ sdf_out.status = "ok"
    /\ sdf_in.a # sdf_in.b /\ sdf_in.r0 # sdf_in.r1 /\ sdf_in.mode = "quadratic"
    /\ \E x \in DOMAIN sdf_out.d : sdf_out.mask0[x] /\ LeZero(sdf_out.d[x])
    /\ \E x \in DOMAIN sdf_out.d : sdf_out.mask1[x] /\ ~LeZero(sdf_out.d[x])
    /\ \E x \in DOMAIN sdf_out.d : sdf_out.maskb[x] /\ LeZero(sdf_out.d[x])
    /\ \E x \in DOMAIN sdf_out.d : sdf_out.maskb[x] /\ ~LeZero(sdf_out.d[x])

(***************************************************************************)
(* voxelize_tree.py, generate_trunk_voxels.                                *)
(*                                                                         *)
(* Voxel centres are i + 0.5 + ox, so this function is modelled in HALF    *)
(* units: every length below (coordinates, heights, radii) is the code's   *)
(* value doubled.  split_ratio is given in halves (split_ratio2 / 2) and   *)
(* the angles are multiples of 90 degrees, where sin and cos are 0, 1, -1. *)
(***************************************************************************)
\* split_r_bot=None
NoneVal == -1

SinDeg(x) == CASE x % 360 = 0 -> 0 [] x % 360 = 90 -> 1 [] x % 360 = 180 -> 0 [] x % 360 = 270 -> -1

CosDeg(x) == SinDeg(x + 90)

\* np.minimum: the smaller value, NaN if either is NaN
NpMinimum(x, y) == IF x = NaN \/ y = NaN THEN NaN ELSE IF x <= y THEN x ELSE y

GridIndex(chunk_size) ==
    (0..(chunk_size[1] - 1)) \X (0..(chunk_size[2] - 1)) \X (0..(chunk_size[3] - 1))

\* P = stack(meshgrid(xs, ys, zs, indexing='ij')), xs = arange(nx) + 0.5 + ox (doubled)
GridPCorner(chunk_size, chunk_origin) ==
    [x \in GridIndex(chunk_size) |->
        <<2 * x[1] + 2 * chunk_origin[1],
          2 * x[2] + 2 * chunk_origin[2],
          2 * x[3] + 2 * chunk_origin[3]>>]

GridP(chunk_size, chunk_origin) ==
    [x \in GridIndex(chunk_size) |->
        <<2 * x[1] + 1 + 2 * chunk_origin[1],
          2 * x[2] + 1 + 2 * chunk_origin[2],
          2 * x[3] + 1 + 2 * chunk_origin[3]>>]

\* The distance array d of the trunk on the point array P, or "ValueError".
\* g is what np.empty_like leaves in each sdf call's d.
TrunkDistance(P, in, g) ==
    LET split_r_bot2 == IF in.split_r_bot = NoneVal THEN in.r_bot ELSE 2 * in.split_r_bot
        A == <<0, 0, 0>>
        Hs2 == in.split_ratio2 * in.height
        B == IF in.split_count = 0 THEN <<0, 2 * in.height, 0>> ELSE <<0, Hs2, 0>>
        Lb2 == 2 * in.height - Hs2
        delta == in.split_separate \div 2
        DirVec(phi) == <<SinDeg(in.split_bend) * CosDeg(phi),
                         CosDeg(in.split_bend),
                         SinDeg(in.split_bend) * SinDeg(phi)>>
        P1(sign) == VAdd(B, VScale(Lb2, DirVec(in.split_angle + sign * delta + 360)))
        Seg(sign) == SdfTaperedSegment(P, B, P1(sign), split_r_bot2, 2 * in.r_tip,
                                       in.interp_mode, g)
        d_main == SdfTaperedSegment(P, A, B, 2 * in.r_bot, split_r_bot2, in.interp_mode, g)
        d_br0 == [x \in DOMAIN P |-> 1]     \* np.full_like(d_main, np.inf)
        d_br1 == [x \in DOMAIN P |-> NpMinimum(d_br0[x], Seg(1).d[x])]
        d_br2 == [x \in DOMAIN P |-> NpMinimum(d_br1[x], Seg(-1).d[x])]
    IN  IF in.interp_mode \notin Modes
        THEN [status |-> "ValueError"]
        ELSE IF in.split_count = 0
        THEN [status |-> "ok",
              d |-> SdfTaperedSegment(P, A, B, 2 * in.r_bot, 2 * in.r_tip, in.interp_mode, g).d]
        ELSE [status |-> "ok",
              d |-> [x \in DOMAIN P |-> NpMinimum(d_main.d[x], d_br2[x])]]

\* vox = zeros(chunk_size, uint8); vox[d <= 0] = 1
Threshold(chunk_size, d) ==
    MaskAssign([x \in GridIndex(chunk_size) |-> 0],
               [x \in GridIndex(chunk_size) |-> LeZero(d[x])],
               [x \in GridIndex(chunk_size) |-> 1])

GenerateTrunkVoxels(in, g) ==
    LET P == GridP(in.chunk_size, in.chunk_origin)
        t == TrunkDistance(P, in, g)
    IN  IF t.status # "ok"
        THEN [status |-> t.status]
        ELSE [status |-> "ok", P |-> P, d |-> t.d, vox |-> Threshold(in.chunk_size, t.d)]

TrunkShapes ==
    [height : 0..MaxHeight, r_bot : 1..MaxRadius, r_tip : {0, 1},
     interp_mode : Modes \cup {"cubic"}, split_count : {0},
     split_ratio2 : {1}, split_separate : {0}, split_bend : {0}, split_angle : {0},
     split_r_bot : {NoneVal}]
    \cup
    [height : 0..MaxHeight, r_bot : 1..MaxRadius, r_tip : {0, 1},
     interp_mode : Modes, split_count : {1},
     split_ratio2 : 0..2, split_separate : {0, 180}, split_bend : {0, 90},
     split_angle : {0, 90}, split_r_bot : {NoneVal, 1}]

Chunks ==
    [chunk_size : {<<2, 3, 1>>, <<ChunkN, ChunkN, ChunkN>>},
     chunk_origin : {<<-1, 0, -1>>, <<-2, -1, 0>>}]

Merge(r, c) == [k \in DOMAIN r \cup DOMAIN c |-> IF k \in DOMAIN r THEN r[k] ELSE c[k]]

TrunkInit ==
    /\ script = "trunk"
    /\ sdf_in = Idle
    /\ sdf_out = Idle
    /\ trunk_in \in {Merge(r, c) : r \in TrunkShapes, c \in Chunks}
    /\ trunk_out = Idle
    /\ au = Idle
    /\ dl = Idle
    /\ sc = Idle
    /\ PureIdle

CallGenerateTrunkVoxels ==
    /\ script = "trunk"
    /\ trunk_out = Idle
    /\ \E g \in Sgn \cup {NaN} : trunk_out' = GenerateTrunkVoxels(trunk_in, g)
    /\ UNCHANGED <<script, sdf_in, sdf_out, trunk_in, au, dl, sc, pure>>

TrunkNext == CallGenerateTrunkVoxels

SpecTrunk == TrunkInit /\ [][TrunkNext]_vars

(***************************************************************************)
(* C1: the grid has the shape chunk_size, holds only 0 and 1, and voxel    *)
(* (i, j, k) is 1 exactly when the signed distance at its centre           *)
(* (i + 0.5 + ox, j + 0.5 + oy, k + 0.5 + oz) is <= 0.                     *)
(***************************************************************************)
\* The trunk's distance at the single point c (doubled coordinates).
DistanceAt(c, in) == TrunkDistance([n \in {0} |-> c], in, 1).d[0]

\* C1: vox[i, j, k] = 1 iff the signed distance at the voxel's centre is <= 0,
\* else 0, over exactly the index set of chunk_size.
C1_VoxIsSdfSign ==
    (script = "trunk" /\ trunk_out.status = "ok") =>
        /\ DOMAIN trunk_out.vox = GridIndex(trunk_in.chunk_size)
        /\ \A x \in DOMAIN trunk_out.vox :
             LET c == <<2 * x[1] + 1 + 2 * trunk_in.chunk_origin[1],
                        2 * x[2] + 1 + 2 * trunk_in.chunk_origin[2],
                        2 * x[3] + 1 + 2 * trunk_in.chunk_origin[3]>>
             IN  /\ trunk_out.vox[x] \in {0, 1}
                 /\ trunk_out.vox[x] = 1 <=> LeZero(DistanceAt(c, trunk_in))

\* A split trunk whose grid holds occupied and empty voxels, one of them
\* occupied by a branch alone.
C1_Witness ==
    /\ script = "trunk" /\ trunk_out.status = "ok" /\ trunk_in.split_count = 1
    /\ trunk_in.split_bend = 90 /\ trunk_in.split_ratio2 = 1
    /\ \E x \in DOMAIN trunk_out.vox : trunk_out.vox[x] = 0
    /\ \E x \in DOMAIN trunk_out.vox :
         /\ trunk_out.vox[x] = 1
         /\ ~LeZero(SdfTaperedSegment(trunk_out.P, <<0, 0, 0>>, <<0, trunk_in.height, 0>>,
                       2 * trunk_in.r_bot,
                       IF trunk_in.split_r_bot = NoneVal THEN trunk_in.r_bot
                                                         ELSE 2 * trunk_in.split_r_bot,
                       trunk_in.interp_mode, 1).d[x])

(***************************************************************************)
(* audio/resampling.py, main.                                              *)
(*                                                                         *)
(* A path is the sequence of its parts below script_dir.  au.root is what  *)
(* script_dir/game_audio is on disk, au.fs the .wav files below script_dir.*)
(***************************************************************************)
OUTPUT_DIR_NAME == "game_audio"

WavPaths ==
    {<<"a.wav">>, <<"sfx", "b.wav">>, <<"music", "d.wav">>,
     <<"sfx", OUTPUT_DIR_NAME, "c.wav">>, <<OUTPUT_DIR_NAME, "a.wav">>}

Parts(p) == {p[n] : n \in 1..Len(p)}

UnderOutputRoot(p) == p[1] = OUTPUT_DIR_NAME

\* What process_file can raise: sf.read and sf.write raise LibsndfileError,
\* soxr.resample and np.max of an empty array ValueError, mkdir OSError.
ProcessErrors == {"LibsndfileError", "ValueError", "OSError"}

\* `except Exception` : every class process_file raises derives from Exception
CatchesValueErrorOnly(exc) == exc = "ValueError"

Catches(exc) == exc \in ProcessErrors

\* the orders in which rglob may yield the files of S
Orders(S) == {w \in [1..Cardinality(S) -> S] : \A m, n \in 1..Cardinality(S) : m # n => w[m] # w[n]}

AudioInit ==
    /\ script = "audio"
    /\ sdf_in = Idle /\ sdf_out = Idle /\ trunk_in = Idle /\ trunk_out = Idle /\ dl = Idle /\ sc = Idle /\ PureIdle
    /\ \E root \in {"absent", "dir", "file"}, fs \in SUBSET WavPaths :
         /\ (root # "dir") => \A p \in fs : ~UnderOutputRoot(p)
         /\ au = [pc |-> "start", root |-> root, fs |-> fs, wav_files |-> <<>>, i |-> 0,
                  attempts |-> <<>>, stdout |-> <<>>, stderr |-> <<>>, exc |-> "none"]

\* delete_previous_output(output_root)
DeletePreviousOutput ==
    /\ script = "audio" /\ au.pc = "start"
    /\ au' = IF au.root = "dir"
             THEN [au EXCEPT !.pc = "find", !.root = "absent",
                             !.fs = {p \in au.fs : ~UnderOutputRoot(p)},
                             !.stdout = Append(au.stdout, [msg |-> "removed previous"])]
             ELSE [au EXCEPT !.pc = "find"]
    /\ UNCHANGED <<script, sdf_in, sdf_out, trunk_in, trunk_out, dl, sc, pure>>

\* wav_files = [p for p in find_wav_files(script_dir) if OUTPUT_DIR_NAME not in p.parts],
\* then the empty-list exit
FindWavFiles ==
    /\ script = "audio" /\ au.pc = "find"
    /\ \E w \in Orders({p \in au.fs : OUTPUT_DIR_NAME \notin Parts(p)}) :
         au' = IF w = <<>>
               THEN [au EXCEPT !.pc = "exit", !.wav_files = w, !.exc = "SystemExit",
                               !.stdout = Append(au.stdout, [msg |-> "no .wav files found"])]
               ELSE [au EXCEPT !.pc = "loop", !.wav_files = w, !.i = 1]
    /\ UNCHANGED <<script, sdf_in, sdf_out, trunk_in, trunk_out, dl, sc, pure>>

\* One iteration of the for loop: process_file succeeds, or raises and the
\* handler prints the error.  mkdir fails when game_audio is a regular file.
LoopIteration ==
    /\ script = "audio" /\ au.pc = "loop" /\ au.i <= Len(au.wav_files)
    /\ LET input_path == au.wav_files[au.i]
           output_path == <<OUTPUT_DIR_NAME>> \o input_path
           next_pc == IF au.i = Len(au.wav_files) THEN "done" ELSE "loop"
       IN  \/ /\ au.root # "file"
              /\ au' = [au EXCEPT !.pc = next_pc, !.i = au.i + 1, !.root = "dir",
                           !.fs = au.fs \cup {output_path},
                           !.attempts = Append(au.attempts, [path |-> input_path, raised |-> "none"]),
                           !.stdout = Append(au.stdout, [msg |-> "converted", path |-> input_path])]
           \/ \E exc \in ProcessErrors :
                /\ (au.root = "file") => exc \in {"LibsndfileError", "OSError"}
                /\ au' = IF Catches(exc)
                         THEN [au EXCEPT !.pc = next_pc, !.i = au.i + 1,
                                  !.attempts = Append(au.attempts, [path |-> input_path, raised |-> exc]),
                                  !.stderr = Append(au.stderr, [msg |-> "error processing",
                                                                path |-> input_path, exc |-> exc])]
                         ELSE [au EXCEPT !.pc = "raised", !.exc = exc,
                                  !.attempts = Append(au.attempts, [path |-> input_path, raised |-> exc])]
    /\ UNCHANGED <<script, sdf_in, sdf_out, trunk_in, trunk_out, dl, sc, pure>>

AudioNext == DeletePreviousOutput \/ FindWavFiles \/ LoopIteration

SpecAudio == AudioInit /\ [][AudioNext]_vars

(***************************************************************************)
(* C3: every discovered file is attempted exactly once, in list order; an  *)
(* exception of process_file is caught and printed and stops no later      *)
(* file; main never ends with an exception that process_file raised.       *)
(***************************************************************************)
\* the failed attempts, in order
FailedSeq(att) ==
    LET F[n \in 0..Len(att)] ==
          IF n = 0 THEN <<>>
          ELSE IF att[n].raised # "none"
               THEN Append(F[n - 1], [msg |-> "error processing", path |-> att[n].path,
                                      exc |-> att[n].raised])
               ELSE F[n - 1]
    IN  F[Len(att)]

\* C3: the attempts so far are the first files of wav_files, each once and in
\* order; when main ends they are all of wav_files; stderr holds one line per
\* failed file; the only exception main ends with is the SystemExit of the
\* empty list.
C3_EveryFileAttemptedOnce ==
    (script = "audio") =>
        /\ Len(au.attempts) <= Len(au.wav_files)
        /\ \A n \in 1..Len(au.attempts) : au.attempts[n].path = au.wav_files[n]
        /\ au.pc = "loop" => Len(au.attempts) = au.i - 1
        /\ au.pc \notin {"start", "find", "loop"} => Len(au.attempts) = Len(au.wav_files)
        /\ au.stderr = FailedSeq(au.attempts)
        /\ au.exc \notin ProcessErrors
        /\ au.exc = "SystemExit" => au.wav_files = <<>>
        /\ au.pc # "raised"

\* main has ended after three files, the first of which raised and the last
\* of which was converted.
C3_Witness ==
    /\ script = "audio" /\ au.pc = "done" /\ Len(au.wav_files) = 3
    /\ au.attempts[1].raised = "LibsndfileError"
    /\ au.attempts[2].raised = "ValueError"
    /\ au.attempts[3].raised = "none"
    /\ Len(au.stderr) = 2 /\ au.exc = "none"

(***************************************************************************)
(* download_hrtf.py, download_file.                                        *)
(*                                                                         *)
(* dl.file is the content of the file at save_path (a sequence of chunks)  *)
(* or Absent; dl.file0 is what it was when the call began.  dl.server is   *)
(* what the network will do: the outcome of the GET, the status, the       *)
(* Content-Disposition header, the body chunks and whether the stream      *)
(* breaks after them.                                                      *)
(***************************************************************************)
MaxChunks == 2     \* a response body has at most MaxChunks chunks

Absent == <<"<absent>">>

RequestExceptions == {"ConnectionError", "Timeout", "HTTPError", "ChunkedEncodingError"}

IOErrors == {"PermissionError", "FileNotFoundError", "NoSpaceError"}

OtherExceptions == {"IndexError"}

\* response.raise_for_status(): HTTPError for a 4xx or 5xx status
RaisesOnlyFor5xx(status) == status >= 500 /\ status < 600

RaisesForStatus(status) == status >= 400 /\ status < 600

\* the classes deriving from Exception: all that the try block can raise
Exceptions == RequestExceptions \cup IOErrors \cup OtherExceptions

\* the except clauses, in order; RequestException is tried first
HandlerMessage(exc) ==
    IF exc \in RequestExceptions THEN "Error downloading the file"
    ELSE IF exc \in IOErrors THEN "Error saving the file"
    ELSE "An unexpected error occurred"

\* control leaves the try block with exc: the matching handler prints and the
\* function returns; an exception no clause matches reaches the caller
Handle(d, exc) ==
    IF exc \in Exceptions
    THEN [d EXCEPT !.pc = "returned", !.raised = exc,
                   !.stdout = Append(d.stdout, [msg |-> HandlerMessage(exc)])]
    ELSE [d EXCEPT !.pc = "raised", !.raised = exc, !.propagated = exc]

Bodies == UNION {[1..n -> {"", "c1", "c2"}] : n \in 0..MaxChunks}

Servers ==
    [get : {"ok", "ConnectionError", "Timeout"}, status : {200, 204, 404, 503},
     disposition : {"none", "filename=x.sofa", "inline"},
     body : Bodies, breaks : BOOLEAN]

DownloadInit ==
    /\ script = "download"
    /\ sdf_in = Idle /\ sdf_out = Idle /\ trunk_in = Idle /\ trunk_out = Idle /\ au = Idle /\ sc = Idle /\ PureIdle
    /\ \E server \in Servers, file0 \in {Absent, <<"old">>}, url_basename \in {"", "hrtf.sofa"},
          writable \in BOOLEAN :
         dl = [pc |-> "get", server |-> server, url_basename |-> url_basename,
               writable |-> writable, file0 |-> file0, file |-> file0,
               status |-> 0, get_failed |-> FALSE, filename |-> "", n |-> 0,
               raised |-> "none", propagated |-> "none", stdout |-> <<>>]

\* response = requests.get(url, stream=True)
Get ==
    /\ script = "download" /\ dl.pc = "get"
    /\ dl' = IF dl.server.get = "ok"
             THEN [dl EXCEPT !.pc = "status", !.status = dl.server.status]
             ELSE Handle([dl EXCEPT !.get_failed = TRUE], dl.server.get)
    /\ UNCHANGED <<script, sdf_in, sdf_out, trunk_in, trunk_out, au, sc, pure>>

\* response.raise_for_status()
RaiseForStatus ==
    /\ script = "download" /\ dl.pc = "status"
    /\ dl' = IF RaisesForStatus(dl.status)
             THEN Handle(dl, "HTTPError")
             ELSE [dl EXCEPT !.pc = "filename"]
    /\ UNCHANGED <<script, sdf_in, sdf_out, trunk_in, trunk_out, au, sc, pure>>

\* the filename from the URL, else from Content-Disposition, else the default;
\* header.split('filename=')[1] raises IndexError when the header names no file
ExtractFilename ==
    /\ script = "download" /\ dl.pc = "filename"
    /\ dl' = IF dl.url_basename # ""
             THEN [dl EXCEPT !.pc = "open", !.filename = dl.url_basename]
             ELSE IF dl.server.disposition = "none"
             THEN [dl EXCEPT !.pc = "open", !.filename = "downloaded_file"]
             ELSE IF dl.server.disposition = "inline"
             THEN Handle(dl, "IndexError")
             ELSE [dl EXCEPT !.pc = "open", !.filename = "x.sofa"]
    /\ UNCHANGED <<script, sdf_in, sdf_out, trunk_in, trunk_out, au, sc, pure>>

\* print("Attempting to save ..."); open(save_path, 'wb') creates or truncates the file
OpenFile ==
    /\ script = "download" /\ dl.pc = "open"
    /\ LET d == [dl EXCEPT !.stdout = Append(dl.stdout, [msg |-> "Attempting to save file"])]
       IN  dl' = IF dl.writable
                 THEN [d EXCEPT !.pc = "write", !.file = <<>>, !.n = 1]
                 ELSE Handle(d, IF dl.file0 = Absent THEN "FileNotFoundError" ELSE "PermissionError")
    /\ UNCHANGED <<script, sdf_in, sdf_out, trunk_in, trunk_out, au, sc, pure>>

\* one turn of `for chunk in response.iter_content(...)`: an empty chunk is
\* skipped; f.write may fail; the stream may break after the last chunk it gave
WriteChunk ==
    /\ script = "download" /\ dl.pc = "write"
    /\ \/ /\ dl.n <= Len(dl.server.body)
          /\ \/ dl' = [dl EXCEPT !.n = dl.n + 1,
                          !.file = IF dl.server.body[dl.n] = ""
                                   THEN dl.file ELSE Append(dl.file, dl.server.body[dl.n])]
             \/ /\ dl.server.body[dl.n] # ""
                /\ dl' = Handle(dl, "NoSpaceError")
       \/ /\ dl.n > Len(dl.server.body)
          /\ dl' = IF dl.server.breaks
                   THEN Handle(dl, "ChunkedEncodingError")
                   ELSE [dl EXCEPT !.pc = "returned",
                            !.stdout = Append(dl.stdout, [msg |-> "Success! File downloaded"])]
    /\ UNCHANGED <<script, sdf_in, sdf_out, trunk_in, trunk_out, au, sc, pure>>

DownloadNext == Get \/ RaiseForStatus \/ ExtractFilename \/ OpenFile \/ WriteChunk

SpecDownload == DownloadInit /\ [][DownloadNext]_vars

(***************************************************************************)
(* C4: download_file never lets an exception reach its caller, and when    *)
(* the request fails or answers 4xx/5xx the file at save_path is neither   *)
(* created nor modified.                                                   *)
(***************************************************************************)
\* C4: no exception propagates (each one raised is printed by a handler), and
\* after a failed request or a 4xx/5xx status the file is what it was.
C4_NoPropagationNoWriteOnHttpFailure ==
    (script = "download") =>
        /\ dl.propagated = "none"
        /\ (dl.raised # "none") =>
              /\ dl.pc = "returned"
              /\ dl.stdout[Len(dl.stdout)].msg = HandlerMessage(dl.raised)
        /\ (dl.get_failed \/ (dl.status >= 400 /\ dl.status < 600)) =>
              /\ dl.file = dl.file0
              /\ \A n \in 1..Len(dl.stdout) : dl.stdout[n].msg # "Attempting to save file"

\* the call has returned after a 404 for a server that did send a body, with
\* an existing file untouched
C4_Witness ==
    /\ script = "download" /\ dl.pc = "returned"
    /\ dl.status = 404 /\ dl.raised = "HTTPError"
    /\ Len(dl.server.body) = MaxChunks /\ dl.server.body[1] = "c1"
    /\ dl.writable /\ dl.file0 = <<"old">> /\ dl.file = <<"old">>

(***************************************************************************)
(* normal_check.py, visualize_sphere_culling.                              *)
(*                                                                         *)
(* radius is given in tenths (radius10 / 10), so the test                  *)
(* i*i + j*j + k*k <= radius*radius is 100 (i*i + j*j + k*k) <= radius10^2.*)
(* The plotting calls change nothing the function returns or prints.       *)
(***************************************************************************)
MaxBound == 2      \* bound is drawn from -1..MaxBound

Radii10 == {0, 10, 17, 20, 24, 30}

\* if i*i + j*j + k*k <= radius*radius
InsideSphereStrict(i, j, k, radius10) == 100 * (i * i + j * j + k * k) < radius10 * radius10

InsideSphere(i, j, k, radius10) == 100 * (i * i + j * j + k * k) <= radius10 * radius10

CullingInit ==
    /\ script = "culling"
    /\ sdf_in = Idle /\ sdf_out = Idle /\ trunk_in = Idle /\ trunk_out = Idle
    /\ au = Idle /\ dl = Idle /\ PureIdle
    /\ \E bound \in (-1)..MaxBound, radius10 \in Radii10 :
         sc = [pc |-> IF bound < 0 THEN "count" ELSE "loop", bound |-> bound,
               radius10 |-> radius10, i |-> -bound, j |-> -bound, k |-> -bound,
               kept_voxels |-> <<>>, culled_voxels |-> <<>>,
               kept_count |-> 0, culled_count |-> 0, printed |-> <<>>, raised |-> "none"]

\* the body of the innermost loop for (i, j, k), and the step to the next voxel
ClassifyVoxel ==
    /\ script = "culling" /\ sc.pc = "loop"
    /\ LET v == <<sc.i, sc.j, sc.k>>
           last == sc.i = sc.bound /\ sc.j = sc.bound /\ sc.k = sc.bound
           s1 == IF InsideSphere(sc.i, sc.j, sc.k, sc.radius10)
                 THEN [sc EXCEPT !.kept_voxels = Append(sc.kept_voxels, v)]
                 ELSE [sc EXCEPT !.culled_voxels = Append(sc.culled_voxels, v)]
       IN  sc' = IF last THEN [s1 EXCEPT !.pc = "count"]
                 ELSE IF sc.k < sc.bound THEN [s1 EXCEPT !.k = sc.k + 1]
                 ELSE IF sc.j < sc.bound THEN [s1 EXCEPT !.j = sc.j + 1, !.k = -sc.bound]
                 ELSE [s1 EXCEPT !.i = sc.i + 1, !.j = -sc.bound, !.k = -sc.bound]
    /\ UNCHANGED <<script, sdf_in, sdf_out, trunk_in, trunk_out, au, dl, pure>>

\* the counts, the note of the plot (kept_count/total_count divides by zero for
\* an empty cube), the GLSL array and the count lines, then the return
CountAndPrint ==
    /\ script = "culling" /\ sc.pc = "count"
    /\ LET kept_count == Len(sc.kept_voxels)
           culled_count == Len(sc.culled_voxels)
           total_count == kept_count + culled_count
       IN  sc' = IF total_count = 0
                 THEN [sc EXCEPT !.pc = "raised", !.raised = "ZeroDivisionError",
                                 !.kept_count = kept_count, !.culled_count = culled_count]
                 ELSE [sc EXCEPT !.pc = "returned",
                                 !.kept_count = kept_count, !.culled_count = culled_count,
                                 !.printed = <<[line |-> "offsets", voxels |-> sc.kept_voxels],
                                               [line |-> "Total count", n |-> kept_count],
                                               [line |-> "OFFSET_COUNT", n |-> kept_count]>>]
    /\ UNCHANGED <<script, sdf_in, sdf_out, trunk_in, trunk_out, au, dl, pure>>

CullingNext == ClassifyVoxel \/ CountAndPrint

SpecCulling == CullingInit /\ [][CullingNext]_vars

(***************************************************************************)
(* C7: kept and culled are disjoint, free of duplicates, together exactly  *)
(* the (2 bound + 1)^3 voxels of the cube; a voxel is kept iff             *)
(* i*i + j*j + k*k <= radius*radius; the count printed for the shader is   *)
(* the length of the kept list.                                            *)
(***************************************************************************)
Elems(q) == {q[n] : n \in 1..Len(q)}

NoDuplicates(q) == \A m, n \in 1..Len(q) : m # n => q[m] # q[n]

Cube(bound) == ((-bound)..bound) \X ((-bound)..bound) \X ((-bound)..bound)

\* C7: on return the two lists partition the cube by the sphere test and the
\* printed OFFSET_COUNT is the length of the kept list.
C7_KeptCulledPartitionCube ==
    (script = "culling" /\ sc.pc = "returned") =>
        /\ Elems(sc.kept_voxels) \cap Elems(sc.culled_voxels) = {}
        /\ NoDuplicates(sc.kept_voxels) /\ NoDuplicates(sc.culled_voxels)
        /\ Elems(sc.kept_voxels) \cup Elems(sc.culled_voxels) = Cube(sc.bound)
        /\ Len(sc.kept_voxels) + Len(sc.culled_voxels)
              = (2 * sc.bound + 1) * (2 * sc.bound + 1) * (2 * sc.bound + 1)
        /\ \A v \in Cube(sc.bound) :
              v \in Elems(sc.kept_voxels)
                 <=> 100 * (v[1] * v[1] + v[2] * v[2] + v[3] * v[3]) <= sc.radius10 * sc.radius10
        /\ sc.printed[3].line = "OFFSET_COUNT" /\ sc.printed[3].n = Len(sc.kept_voxels)
        /\ sc.printed[1].voxels = sc.kept_voxels

\* the call has returned for a sphere of radius 2.0 in the cube of bound 2:
\* (2, 0, 0) lies on the sphere and is kept, (2, 2, 2) is culled
C7_Witness ==
    /\ script = "culling" /\ sc.pc = "returned"
    /\ sc.bound = 2 /\ sc.radius10 = 20
    /\ <<2, 0, 0>> \in Elems(sc.kept_voxels)
    /\ <<2, 2, 2>> \in Elems(sc.culled_voxels)

(***************************************************************************)
(* test.py, linear_scale_to_u8.                                            *)
(*                                                                         *)
(* A pixel value is an integer count of thousandths (100001 is 100.001).   *)
(* np.isclose(max_val, min_val) is |max - min| <= atol + rtol * |min| with *)
(* numpy's defaults atol = 1e-8 and rtol = 1e-5; in thousandths that is    *)
(* (max - min) * 100000 <= 1 + |min|.                                      *)
(***************************************************************************)
MaxPixels == 3     \* an image has 1..MaxPixels pixel values

PixelValues == {-1000, 0, 1, 500, 1000, 100000, 100001}

SeqMin(q) == CHOOSE v \in {q[n] : n \in 1..Len(q)} : \A n \in 1..Len(q) : v <= q[n]

SeqMax(q) == CHOOSE v \in {q[n] : n \in 1..Len(q)} : \A n \in 1..Len(q) : v >= q[n]

\* np.isclose(a, b) for the values a >= b in thousandths
IsClose(a, b) == (a - b) <= (1 + Abs(b)) \div 100000

\* np.round(n / d) for d > 0: to the nearest integer, halves to the even one
RoundHalfEven(n, d) ==
    LET q == n \div d
        r == n % d
    IN  IF 2 * r > d \/ (2 * r = d /\ q % 2 = 1) THEN q + 1 ELSE q

LinearScaleToU8(img) ==
    LET min_val == SeqMin(img)
        max_val == SeqMax(img)
    IN  IF IsClose(max_val, min_val)
        THEN [n \in 1..Len(img) |-> 0]
        ELSE [n \in 1..Len(img) |->
                Clip(RoundHalfEven(255 * (img[n] - min_val), max_val - min_val), 0, 255)]

HdrInit ==
    /\ script = "hdr"
    /\ sdf_in = Idle /\ sdf_out = Idle /\ trunk_in = Idle /\ trunk_out = Idle
    /\ au = Idle /\ dl = Idle /\ sc = Idle
    /\ hdr \in UNION {[1..n -> PixelValues] : n \in 1..MaxPixels}
    /\ u8 = <<>> /\ na_in = <<>> /\ na_out = <<>>

CallLinearScaleToU8 ==
    /\ script = "hdr" /\ u8 = <<>>
    /\ u8' = LinearScaleToU8(hdr)
    /\ UNCHANGED <<script, sdf_in, sdf_out, trunk_in, trunk_out, au, dl, sc, hdr, na_in, na_out>>

HdrNext == CallLinearScaleToU8

SpecHdr == HdrInit /\ [][HdrNext]_vars

(***************************************************************************)
(* C5: for a non-constant input every output value is an integer in        *)
(* 0..255, the minimum maps to 0, the maximum to 255 and the mapping       *)
(* preserves order; for a constant input the output is all zeros.          *)
(***************************************************************************)
\* C5: linear_scale_to_u8 maps a non-constant image onto the full range
\* 0..255 (min to 0, max to 255, order kept) and a constant image to zeros.
C5_FullRangeForNonConstant ==
    (script = "hdr" /\ u8 # <<>>) =>
        /\ Len(u8) = Len(hdr)
        /\ \A n \in 1..Len(u8) : u8[n] \in 0..255
        /\ IF SeqMin(hdr) = SeqMax(hdr)
           THEN \A n \in 1..Len(u8) : u8[n] = 0
           ELSE /\ \A n \in 1..Len(u8) : hdr[n] = SeqMin(hdr) => u8[n] = 0
                /\ \A n \in 1..Len(u8) : hdr[n] = SeqMax(hdr) => u8[n] = 255
                /\ \A m, n \in 1..Len(u8) : hdr[m] <= hdr[n] => u8[m] <= u8[n]

(***************************************************************************)
(* audio/resampling.py, normalize_audio.                                   *)
(*                                                                         *)
(* The samples are binary floating-point numbers and every numpy operation *)
(* rounds its exact result to the nearest one, ties to even.  A float is   *)
(* [m, e], the value m * 2^e, with m = 0 or 2^(Precision-1) <= |m| <       *)
(* 2^Precision.  The code runs with 53 bits; the model keeps the rounding  *)
(* of every operation at Precision bits (no overflow, no subnormals).      *)
(***************************************************************************)
Precision == 7     \* bits of a float's significand
MaxSamples == 3    \* a signal has 0..MaxSamples samples

RECURSIVE Pow2(_)
Pow2(n) == IF n = 0 THEN 1 ELSE 2 * Pow2(n - 1)

FZero == [m |-> 0, e |-> 0]

\* (n / d) * 2^e rounded to a float, d > 0
RECURSIVE RoundRat(_, _, _)
RoundRat(n, d, e) ==
    IF n = 0 THEN FZero
    ELSE IF Abs(n) < d * Pow2(Precision - 1) THEN RoundRat(2 * n, d, e - 1)
    ELSE IF Abs(n) >= d * Pow2(Precision) THEN RoundRat(n, 2 * d, e + 1)
    ELSE LET q == RoundHalfEven(Abs(n), d)
             sg == IF n < 0 THEN -1 ELSE 1
         IN  IF q = Pow2(Precision)
             THEN [m |-> sg * Pow2(Precision - 1), e |-> e + 1]
             ELSE [m |-> sg * q, e |-> e]

MinOf(x, y) == IF x <= y THEN x ELSE y

\* x.m * 2^(x.e - e0), an integer for e0 <= x.e
Scaled(x, e0) == x.m * Pow2(x.e - e0)

FAdd(x, y) ==
    IF x.m = 0 THEN y ELSE IF y.m = 0 THEN x
    ELSE RoundRat(Scaled(x, MinOf(x.e, y.e)) + Scaled(y, MinOf(x.e, y.e)), 1, MinOf(x.e, y.e))

FNeg(x) == [m |-> -x.m, e |-> x.e]

FSub(x, y) == FAdd(x, FNeg(y))

FMul(x, y) == RoundRat(x.m * y.m, 1, x.e + y.e)

\* x / y for y # 0
FDiv(x, y) == RoundRat(IF y.m < 0 THEN -x.m ELSE x.m, Abs(y.m), x.e - y.e)

FAbs(x) == [m |-> Abs(x.m), e |-> x.e]

\* x <= y for x, y >= 0
FLeqNonNeg(x, y) == x.m = 0 \/ (y.m # 0 /\ (x.e < y.e \/ (x.e = y.e /\ x.m <= y.m)))

\* np.mean(data): the samples added in order, divided by their number
NpMean(data) ==
    LET S[n \in 0..Len(data)] == IF n = 0 THEN FZero ELSE FAdd(S[n - 1], data[n])
    IN  FDiv(S[Len(data)], RoundRat(Len(data), 1, 0))

\* np.max(np.abs(v)) of a non-empty v
NpMaxAbs(v) ==
    CHOOSE x \in {FAbs(v[n]) : n \in 1..Len(v)} : \A n \in 1..Len(v) : FLeqNonNeg(FAbs(v[n]), x)

\* 10 ** (target_db / 20.0) for the levels the model draws (0 dB, and -1 dB = 0.891250938...)
PeakLinear(target_db) == IF target_db = 0 THEN RoundRat(1, 1, 0) ELSE RoundRat(89125, 100000, 0)

\* np.max raises ValueError for an empty array
NormalizeAudio(data, target_db) ==
    LET mean == NpMean(data)
        centered == [n \in 1..Len(data) |-> FSub(data[n], mean)]
        peak_linear == PeakLinear(target_db)
        max_abs == NpMaxAbs(centered)
        gain == FDiv(peak_linear, max_abs)
    IN  IF Len(data) = 0 THEN [status |-> "ValueError"]
        ELSE IF max_abs = FZero THEN [status |-> "ok", centered |-> centered, out |-> centered]
        ELSE [status |-> "ok", centered |-> centered,
              out |-> [n \in 1..Len(data) |-> FMul(centered[n], gain)]]

\* the sample values the signals are drawn from: 0, 0.1, -0.25, 0.5, 0.7, 0.9
SampleValues ==
    {FZero, RoundRat(1, 10, 0), RoundRat(-1, 4, 0), RoundRat(1, 2, 0),
     RoundRat(7, 10, 0), RoundRat(9, 10, 0)}

NormalizeInit ==
    /\ script = "normalize"
    /\ sdf_in = Idle /\ sdf_out = Idle /\ trunk_in = Idle /\ trunk_out = Idle
    /\ au = Idle /\ dl = Idle /\ sc = Idle
    /\ hdr = <<>> /\ u8 = <<>>
    /\ na_in \in [data : UNION {[1..n -> SampleValues] : n \in 0..MaxSamples},
                  target_db : {0, -1}]
    /\ na_out = <<>>

CallNormalizeAudio ==
    /\ script = "normalize" /\ na_out = <<>>
    /\ na_out' = NormalizeAudio(na_in.data, na_in.target_db)
    /\ UNCHANGED <<script, sdf_in, sdf_out, trunk_in, trunk_out, au, dl, sc, hdr, u8, na_in>>

NormalizeNext == CallNormalizeAudio

SpecNormalize == NormalizeInit /\ [][NormalizeNext]_vars

(***************************************************************************)
(* C6: the output has zero mean and its peak is 10**(target_db/20) for     *)
(* every non-empty input whose mean-removed signal is not identically      *)
(* zero; a mean-removed signal that is identically zero is returned as is. *)
(***************************************************************************)
MinExp(v) == CHOOSE e \in {v[n].e : n \in 1..Len(v)} : \A n \in 1..Len(v) : e <= v[n].e

\* the exact sum of the samples of v, in units of 2^MinExp(v)
ExactSum(v) ==
    LET S[n \in 0..Len(v)] == IF n = 0 THEN 0 ELSE S[n - 1] + Scaled(v[n], MinExp(v))
    IN  S[Len(v)]

\* |mean(v)| <= peak / 8
MeanNearZero(v, peak) ==
    LET e0 == MinOf(MinExp(v), peak.e)
    IN  8 * Abs(ExactSum(v)) * Pow2(MinExp(v) - e0) <= Len(v) * Scaled(peak, e0)

\* |max|v| - peak| <= peak / 8
PeakNear(v, peak) ==
    LET mx == NpMaxAbs(v)
        e0 == MinOf(mx.e, peak.e)
    IN  8 * Abs(Scaled(mx, e0) - Scaled(peak, e0)) <= Scaled(peak, e0)

IsAllZero(v) == \A n \in 1..Len(v) : v[n] = FZero

\* C6: normalize_audio returns a signal of zero mean whose peak is
\* 10**(target_db/20), or the all-zero mean-removed signal as it is.  Both
\* equalities are read up to peak/8, far above the rounding of the arithmetic.
C6_ZeroMeanPeakAtTarget ==
    (script = "normalize" /\ na_out # <<>> /\ na_out.status = "ok") =>
        IF IsAllZero(na_out.centered)
        THEN na_out.out = na_out.centered
        ELSE /\ MeanNearZero(na_out.out, PeakLinear(na_in.target_db))
             /\ PeakNear(na_out.out, PeakLinear(na_in.target_db))

(***************************************************************************)
(* Any one of the scripts, run from a terminal.                            *)
(***************************************************************************)
Init ==
    \/ SdfInit \/ TrunkInit \/ AudioInit \/ NormalizeInit
    \/ DownloadInit \/ HdrInit \/ CullingInit

Next ==
    \/ SdfNext \/ TrunkNext \/ AudioNext \/ NormalizeNext
    \/ DownloadNext \/ HdrNext \/ CullingNext

Spec == Init /\ [][Next]_vars

====
